---- MODULE Spec2Model ----
(***************************************************************************)
(* A model of nengo.spa.module.Module (src/nengo/spa/module.py): the SPA   *)
(* module registry.  Attribute assignment registers sub-modules           *)
(* (__setattr__ / __set_module), the resolvers get_module,                 *)
(* get_module_input and get_module_output walk dotted and legacy           *)
(* underscore names, get_module_inputs / get_module_outputs enumerate the  *)
(* children's ports, and __exit__ checks that every nested Module was      *)
(* assigned as an attribute.                                               *)
(*                                                                         *)
(* Strings are sequences of tokens.  The tokens "." and "_" are the two    *)
(* characters str.split and str.rsplit look for; every other token stands  *)
(* for a run of characters holding neither.                                *)
(***************************************************************************)
EXTENDS Integers, Sequences, FiniteSets, TLC

VARIABLES attrs, modules, inputs, outputs, label, vmaps, resolvedAt, ret

vars == <<attrs, modules, inputs, outputs, label, vmaps, resolvedAt, ret>>

(***************************************************************************)
(* Bounds of the model.                                                    *)
(***************************************************************************)
\* successful attribute writes in one behaviour
MaxAssign == 2
\* call depth at which the interpreter gives up a recursion (RecursionError)
RecursionLimit == 8

(***************************************************************************)
(* The objects of the construction script                                  *)
(*     m3 = Module(label="b")                                              *)
(*     m1 = Module()                                                       *)
(*     with m1:                                                            *)
(*         m2 = Module(); net = nengo.Network()                            *)
(*         ...                                                             *)
(* m2 and net are built inside m1's scope, so they are listed in           *)
(* m1.networks and m2 takes m1's vocabulary map as its default; m1 and m3  *)
(* own a map each.  The behaviours start where the two are built: the      *)
(* assignments follow, and Exit is the close of a with block of a module.  *)
(***************************************************************************)
Mods == {"m1", "m2", "m3"}
PlainNets == {"net"}
Other == "other"
Unset == "unset"
AttrValues == Mods \cup {Other}

Dot == "."
Us == "_"
default == <<"default">>
\* the attribute names the script assigns to
Keys == {<<"a">>, <<"a", Us, "b">>, default}
NoLabel == <<>>

Dims == {1, 2}
NoVocab == [kind |-> "none", dim |-> 0, owner |-> "none"]
RawDim(d) == [kind |-> "dim", dim |-> d, owner |-> "none"]
Vocab(mapId, d) == [kind |-> "vocab", dim |-> d, owner |-> mapId]
\* isinstance(v, int) taken to hold of a vocabulary as well
IsInt_AnyBinding(v) == v.kind \in {"dim", "vocab"}
IsInt(v) == v.kind = "dim"

Port(k, o, v) == [k |-> k, obj |-> o, v |-> v]

(***************************************************************************)
(* Module.__init__: the vocabulary map a module holds and the networks     *)
(* built inside its scope, both fixed by the construction script above.    *)
(***************************************************************************)
vocabs(m) == IF m = "m3" THEN "m3" ELSE "m1"
MapIds == {vocabs(m) : m \in Mods}
networks(m) == IF m = "m1" THEN <<"m2", "net">> ELSE <<>>
IsModule(net) == net \in Mods

\* the ports the three modules declare in their constructors; m3's output
\* "default" is given a Vocabulary of the caller's from the start
InitInputs ==
    [m \in Mods |->
        CASE m = "m1" -> <<Port(default, <<m, "in", default>>, RawDim(1))>>
          [] m = "m2" -> <<Port(<<"a">>, <<m, "in", <<"a">>>>, RawDim(1)),
                           Port(<<"b">>, <<m, "in", <<"b">>>>, RawDim(2))>>
          [] OTHER    -> <<>>]
InitOutputs ==
    [m \in Mods |->
        CASE m = "m1" -> <<Port(default, <<m, "out", default>>, RawDim(1))>>
          [] m = "m2" -> <<Port(<<"a", Us, "b">>, <<m, "out", <<"a", Us, "b">>>>, RawDim(2))>>
          [] OTHER    -> <<Port(<<"b">>, <<m, "out", <<"b">>>>, RawDim(1)),
                           Port(default, <<m, "out", default>>, Vocab("ext", 2))>>]

NoRet ==
    [op |-> "none", self |-> "None", key |-> <<>>, value |-> "None",
     exc |-> "None", raised |-> "None", culprit |-> "None", onAdd |-> <<>>]

Init ==
    /\ attrs = [m \in Mods |-> [k \in Keys |-> Unset]]
    /\ modules = [m \in Mods |-> <<>>]
    /\ inputs = InitInputs
    /\ outputs = InitOutputs
    /\ label = [m \in Mods |-> IF m = "m3" THEN <<"b">> ELSE NoLabel]
    /\ vmaps = [v \in MapIds |-> [d \in Dims |-> NoVocab]]
    /\ resolvedAt = {}
    /\ ret = NoRet

(***************************************************************************)
(* VocabularyMap.get_or_create: the handle cached for the dimension, or a  *)
(* new one that is cached.                                                 *)
(***************************************************************************)
GetOrCreate(vm, mapId, d) ==
    IF vm[mapId][d] # NoVocab
    THEN [h |-> vm[mapId][d], vm |-> vm]
    ELSE [h |-> Vocab(mapId, d), vm |-> [vm EXCEPT ![mapId][d] = Vocab(mapId, d)]]

(***************************************************************************)
(* The loops of __set_module over module.inputs and module.outputs: every  *)
(* entry whose second half is an int is rebound to the vocabulary that     *)
(* mapId's map gives for it; the other entries are left as they are.       *)
(***************************************************************************)
RECURSIVE ResolveFrom(_, _, _, _)
ResolveFrom(ports, i, vm, mapId) ==
    IF i > Len(ports) THEN [ports |-> ports, vm |-> vm]
    ELSE IF IsInt(ports[i].v)
         THEN LET g == GetOrCreate(vm, mapId, ports[i].v.dim)
              IN  ResolveFrom([ports EXCEPT ![i].v = g.h], i + 1, g.vm, mapId)
         ELSE ResolveFrom(ports, i + 1, vm, mapId)

ResolvePorts(ports, vm, mapId) == ResolveFrom(ports, 1, vm, mapId)

\* the entries of a port dict that hold an int
RawPorts(ports) == {i \in 1..Len(ports) : IsInt(ports[i].v)}

\* dict item assignment d[key] = m: an existing key keeps its place
PutChild(d, key, m) ==
    IF \E i \in 1..Len(d) : d[i].k = key
    THEN [i \in 1..Len(d) |-> IF d[i].k = key THEN [k |-> key, m |-> m] ELSE d[i]]
    ELSE Append(d, [k |-> key, m |-> m])

HasKey(d, key) == \E i \in 1..Len(d) : d[i].k = key
Lookup(d, key) == d[CHOOSE i \in 1..Len(d) : d[i].k = key]
Values(d) == {d[i].m : i \in 1..Len(d)}

(***************************************************************************)
(* Module.on_add(spa): a hook for subclasses.  What a hook can see of the  *)
(* registry at the moment it is called: whether the module is among spa's  *)
(* _modules under the key, and whether it still has a port bound to an int.*)
(***************************************************************************)
OnAdd(module, spa, key, mods, ins, outs) ==
    [module |-> module, spa |-> spa,
     registered |-> HasKey(mods[spa], key) /\ Lookup(mods[spa], key).m = module,
     raw |-> RawPorts(ins[module]) # {} \/ RawPorts(outs[module]) # {}]

\* __set_module asking the module's own map instead of the parent's
SetModule_OwnVocabs(self, key, module) ==
    LET lab  == IF label[module] = NoLabel THEN [label EXCEPT ![module] = key]
                ELSE label
        mods == [modules EXCEPT ![self] = PutChild(modules[self], key, module)]
        rin  == ResolvePorts(inputs[module], vmaps, vocabs(module))
        ins  == [inputs EXCEPT ![module] = rin.ports]
        rout == ResolvePorts(outputs[module], rin.vm, vocabs(module))
        outs == [outputs EXCEPT ![module] = rout.ports]
    IN  [label |-> lab, modules |-> mods, inputs |-> ins, outputs |-> outs,
         vmaps |-> rout.vm,
         onAdd |-> <<OnAdd(module, self, key, mods, ins, outs)>>]

\* __set_module calling on_add before the two port loops
SetModule_HookFirst(self, key, module) ==
    LET lab  == IF label[module] = NoLabel THEN [label EXCEPT ![module] = key]
                ELSE label
        mods == [modules EXCEPT ![self] = PutChild(modules[self], key, module)]
        rin  == ResolvePorts(inputs[module], vmaps, vocabs(self))
        ins  == [inputs EXCEPT ![module] = rin.ports]
        rout == ResolvePorts(outputs[module], rin.vm, vocabs(self))
        outs == [outputs EXCEPT ![module] = rout.ports]
    IN  [label |-> lab, modules |-> mods, inputs |-> ins, outputs |-> outs,
         vmaps |-> rout.vm,
         onAdd |-> <<OnAdd(module, self, key, mods, inputs, outputs)>>]

\* __set_module without its loop over module.outputs
SetModule_InputsOnly(self, key, module) ==
    LET lab  == IF label[module] = NoLabel THEN [label EXCEPT ![module] = key]
                ELSE label
        mods == [modules EXCEPT ![self] = PutChild(modules[self], key, module)]
        rin  == ResolvePorts(inputs[module], vmaps, vocabs(self))
        ins  == [inputs EXCEPT ![module] = rin.ports]
    IN  [label |-> lab, modules |-> mods, inputs |-> ins, outputs |-> outputs,
         vmaps |-> rin.vm,
         onAdd |-> <<OnAdd(module, self, key, mods, ins, outputs)>>]

\* __set_module without the test of module.label
SetModule_Relabel(self, key, module) ==
    LET lab  == [label EXCEPT ![module] = key]
        mods == [modules EXCEPT ![self] = PutChild(modules[self], key, module)]
        rin  == ResolvePorts(inputs[module], vmaps, vocabs(self))
        ins  == [inputs EXCEPT ![module] = rin.ports]
        rout == ResolvePorts(outputs[module], rin.vm, vocabs(self))
        outs == [outputs EXCEPT ![module] = rout.ports]
    IN  [label |-> lab, modules |-> mods, inputs |-> ins, outputs |-> outs,
         vmaps |-> rout.vm,
         onAdd |-> <<OnAdd(module, self, key, mods, ins, outs)>>]

(***************************************************************************)
(* Module.__set_module(key, module)                                        *)
(***************************************************************************)
SetModule(self, key, module) ==
    LET lab  == IF label[module] = NoLabel THEN [label EXCEPT ![module] = key]
                ELSE label
        mods == [modules EXCEPT ![self] = PutChild(modules[self], key, module)]
        rin  == ResolvePorts(inputs[module], vmaps, vocabs(self))
        ins  == [inputs EXCEPT ![module] = rin.ports]
        rout == ResolvePorts(outputs[module], rin.vm, vocabs(self))
        outs == [outputs EXCEPT ![module] = rout.ports]
    IN  [label |-> lab, modules |-> mods, inputs |-> ins, outputs |-> outs,
         vmaps |-> rout.vm,
         onAdd |-> <<OnAdd(module, self, key, mods, ins, outs)>>]

\* the test without its isinstance half
HasModuleAttr_AnyValue(self, key) == attrs[self][key] # Unset

\* the first test of __setattr__: the attribute exists and holds a Module
HasModuleAttr(self, key) == attrs[self][key] \in Mods

NumAssigned == Cardinality({<<m, k>> \in Mods \X Keys : attrs[m][k] # Unset})

\* the ports of module that hold an int now, as the registration in self
\* finds them
RawNow(self, module) ==
    {[parent |-> self, module |-> module, io |-> "in", k |-> inputs[module][i].k,
      dim |-> inputs[module][i].v.dim] : i \in RawPorts(inputs[module])}
    \cup
    {[parent |-> self, module |-> module, io |-> "out", k |-> outputs[module][i].k,
      dim |-> outputs[module][i].v.dim] : i \in RawPorts(outputs[module])}

(***************************************************************************)
(* Module.__setattr__(key, value), with value a Module or any other value  *)
(* that the attribute accepts.                                             *)
(***************************************************************************)
\* __setattr__ storing and registering first and testing for the bound name
\* afterwards
SetAttr_CheckLate(self, key, value) ==
    LET raised == IF HasModuleAttr(self, key) THEN "ReassignmentError" ELSE "None"
    IN  /\ HasModuleAttr(self, key) \/ attrs[self][key] # Unset \/ NumAssigned < MaxAssign
        /\ attrs' = [attrs EXCEPT ![self][key] = value]
        /\ IF value \in Mods
           THEN LET s == SetModule(self, key, value)
                IN  /\ label' = s.label
                    /\ modules' = s.modules
                    /\ inputs' = s.inputs
                    /\ outputs' = s.outputs
                    /\ vmaps' = s.vmaps
                    /\ resolvedAt' = resolvedAt \cup RawNow(self, value)
                    /\ ret' = [NoRet EXCEPT !.op = "setattr", !.self = self,
                                            !.key = key, !.value = value,
                                            !.raised = raised, !.onAdd = s.onAdd]
           ELSE /\ ret' = [NoRet EXCEPT !.op = "setattr", !.self = self,
                                        !.key = key, !.value = value,
                                        !.raised = raised]
                /\ UNCHANGED <<modules, inputs, outputs, label, vmaps, resolvedAt>>

SetAttr(self, key, value) ==
    IF HasModuleAttr(self, key)
    THEN /\ ret' = [NoRet EXCEPT !.op = "setattr", !.self = self, !.key = key,
                                 !.value = value, !.raised = "ReassignmentError"]
         /\ UNCHANGED <<attrs, modules, inputs, outputs, label, vmaps, resolvedAt>>
    ELSE /\ attrs[self][key] # Unset \/ NumAssigned < MaxAssign
         /\ attrs' = [attrs EXCEPT ![self][key] = value]
         /\ IF value \in Mods
            THEN LET s == SetModule(self, key, value)
                 IN  /\ label' = s.label
                     /\ modules' = s.modules
                     /\ inputs' = s.inputs
                     /\ outputs' = s.outputs
                     /\ vmaps' = s.vmaps
                     /\ resolvedAt' = resolvedAt \cup RawNow(self, value)
                     /\ ret' = [NoRet EXCEPT !.op = "setattr", !.self = self,
                                             !.key = key, !.value = value,
                                             !.onAdd = s.onAdd]
            ELSE /\ ret' = [NoRet EXCEPT !.op = "setattr", !.self = self,
                                         !.key = key, !.value = value]
                 /\ UNCHANGED <<modules, inputs, outputs, label, vmaps, resolvedAt>>

(***************************************************************************)
(* Module.__exit__(ex_type, ex_value, traceback), ex the exception in      *)
(* flight or "None".                                                       *)
(***************************************************************************)
Exceptions == {"None", "ValueError"}

\* the test of the loop without its isinstance half
Unregistered_AnyNetwork(self) ==
    {i \in 1..Len(networks(self)) : networks(self)[i] \notin Values(modules[self])}

Unregistered(self) ==
    {i \in 1..Len(networks(self)) :
        IsModule(networks(self)[i]) /\ networks(self)[i] \notin Values(modules[self])}

\* __exit__ without its early return
ExitResult_AlwaysChecks(self, ex) ==
    IF Unregistered(self) # {}
    THEN [NoRet EXCEPT !.op = "exit", !.self = self, !.exc = ex,
                       !.raised = "StructuralIntegrityError",
                       !.culprit = networks(self)[
                           CHOOSE i \in Unregistered(self) :
                               \A j \in Unregistered(self) : i <= j]]
    ELSE [NoRet EXCEPT !.op = "exit", !.self = self, !.exc = ex, !.raised = ex]

\* what __exit__ leaves the caller with: the exception in flight goes on
\* (return False), else the first nested Module that is no value of _modules
\* raises, else nothing is raised
ExitResult(self, ex) ==
    IF ex # "None"
    THEN [NoRet EXCEPT !.op = "exit", !.self = self, !.exc = ex, !.raised = ex]
    ELSE IF Unregistered(self) # {}
    THEN [NoRet EXCEPT !.op = "exit", !.self = self, !.exc = ex,
                       !.raised = "StructuralIntegrityError",
                       !.culprit = networks(self)[
                           CHOOSE i \in Unregistered(self) :
                               \A j \in Unregistered(self) : i <= j]]
    ELSE [NoRet EXCEPT !.op = "exit", !.self = self, !.exc = ex]

Exit(self, ex) ==
    /\ ret' = ExitResult(self, ex)
    /\ UNCHANGED <<attrs, modules, inputs, outputs, label, vmaps, resolvedAt>>

(***************************************************************************)
(* Name resolution.  A call returns one of                                 *)
(*   [tag "ok"]             the value returned and the number of           *)
(*                          DeprecationWarnings issued on the way,         *)
(*   [tag "SpaModuleError"] raised by an except clause, with what could    *)
(*                          not be found and the name in the message,      *)
(*   [tag "RecursionError"] the interpreter's recursion limit was reached, *)
(*   [tag "KeyError"]       inside a try block only: a missing dict key or *)
(*                          the explicit raise KeyError.                   *)
(* SpaModuleError is no KeyError, so an except clause lets the error of a  *)
(* nested call pass as it is.                                              *)
(***************************************************************************)
NoPort == [obj |-> <<>>, v |-> NoVocab]
NoMsg == [what |-> "none", name |-> <<>>]
Found(val, warns) == [tag |-> "ok", val |-> val, warns |-> warns, msg |-> NoMsg]
Raise(tag, none) == [tag |-> tag, val |-> none, warns |-> 0, msg |-> NoMsg]
SpaModuleError(what, name, none) ==
    [tag |-> "SpaModuleError", val |-> none, warns |-> 0,
     msg |-> [what |-> what, name |-> name]]

\* the positions of a separator in a name
Places(name, sep) == {i \in 1..Len(name) : name[i] = sep}
Min(S) == CHOOSE i \in S : \A j \in S : i <= j
Max(S) == CHOOSE i \in S : \A j \in S : i >= j
CutAt(name, i) == <<SubSeq(name, 1, i - 1), SubSeq(name, i + 1, Len(name))>>

\* split cutting at the last separator
Split_Last(name, sep) ==
    IF Places(name, sep) = {} THEN <<name>> ELSE CutAt(name, Max(Places(name, sep)))

\* name.split(sep, 1): cut at the first separator, if there is one
Split(name, sep) ==
    IF Places(name, sep) = {} THEN <<name>> ELSE CutAt(name, Min(Places(name, sep)))

\* rsplit cutting at the first separator
RSplit_First(name, sep) ==
    IF Places(name, sep) = {} THEN <<name>> ELSE CutAt(name, Min(Places(name, sep)))

\* name.rsplit(sep, 1): cut at the last separator, if there is one
RSplit(name, sep) ==
    IF Places(name, sep) = {} THEN <<name>> ELSE CutAt(name, Max(Places(name, sep)))

\* name in self.inputs, self.inputs[name]
HasPort(ports, name) == \E i \in 1..Len(ports) : ports[i].k = name
\* a lookup that gives the first entry of the dict whatever the name
PortOf_First(ports, name) == [obj |-> ports[1].obj, v |-> ports[1].v]
PortOf(ports, name) ==
    LET p == ports[CHOOSE i \in 1..Len(ports) : ports[i].k = name]
    IN  [obj |-> p.obj, v |-> p.v]

Ports(io, m) == IF io = "input" THEN inputs[m] ELSE outputs[m]

\* the deprecated form without its warning
Warned_Silent(r) == r

\* the deprecated form found the port: the value goes on with a warning
Warned(r) == IF r.tag = "ok" THEN Found(r.val, r.warns + 1) ELSE r

\* the resolver trying a child of the name's head before a child of the name
RECURSIVE GetModulePort_LegacyFirst(_, _, _, _)
GetModulePort_LegacyFirst(io, self, name, depth) ==
    IF depth = 0 THEN Raise("RecursionError", NoPort)
    ELSE
    LET components == Split(name, Dot)
        legacy == RSplit(name, Us)
        try ==
            IF Len(components) > 1
            THEN IF HasKey(modules[self], components[1])
                 THEN GetModulePort_LegacyFirst(io, Lookup(modules[self], components[1]).m,
                                                components[2], depth - 1)
                 ELSE Raise("KeyError", NoPort)
            ELSE IF HasPort(Ports(io, self), name)
            THEN Found(PortOf(Ports(io, self), name), 0)
            ELSE IF Len(legacy) > 1 /\ HasKey(modules[self], legacy[1])
            THEN Warned(GetModulePort_LegacyFirst(io, Lookup(modules[self], legacy[1]).m,
                                                  legacy[2], depth - 1))
            ELSE IF HasKey(modules[self], name)
            THEN GetModulePort_LegacyFirst(io, Lookup(modules[self], name).m,
                                           default, depth - 1)
            ELSE Raise("KeyError", NoPort)
    IN  IF try.tag = "KeyError" THEN SpaModuleError(io, name, NoPort) ELSE try

(***************************************************************************)
(* Module.get_module_input(name) for io = "input" and                      *)
(* Module.get_module_output(name) for io = "output"; depth is the number   *)
(* of calls the interpreter still allows.                                  *)
(***************************************************************************)
RECURSIVE GetModulePort(_, _, _, _)
GetModulePort(io, self, name, depth) ==
    IF depth = 0 THEN Raise("RecursionError", NoPort)
    ELSE
    LET components == Split(name, Dot)
        legacy == RSplit(name, Us)
        try ==
            IF Len(components) > 1
            THEN IF HasKey(modules[self], components[1])
                 THEN GetModulePort(io, Lookup(modules[self], components[1]).m,
                                    components[2], depth - 1)
                 ELSE Raise("KeyError", NoPort)
            ELSE IF HasPort(Ports(io, self), name)
            THEN Found(PortOf(Ports(io, self), name), 0)
            ELSE IF HasKey(modules[self], name)
            THEN GetModulePort(io, Lookup(modules[self], name).m, default, depth - 1)
            ELSE IF Len(legacy) > 1
            THEN IF HasKey(modules[self], legacy[1])
                 THEN Warned(GetModulePort(io, Lookup(modules[self], legacy[1]).m,
                                           legacy[2], depth - 1))
                 ELSE Raise("KeyError", NoPort)
            ELSE Raise("KeyError", NoPort)
    IN  IF try.tag = "KeyError" THEN SpaModuleError(io, name, NoPort) ELSE try

get_module_input(self, name) == GetModulePort("input", self, name, RecursionLimit)
get_module_output(self, name) == GetModulePort("output", self, name, RecursionLimit)

(***************************************************************************)
(* Module.get_module(name, strip_output)                                   *)
(***************************************************************************)
RECURSIVE GetModule(_, _, _, _)
GetModule(self, name, strip_output, depth) ==
    IF depth = 0 THEN Raise("RecursionError", "None")
    ELSE
    LET components == Split(name, Dot)
        try ==
            IF Len(components) > 1
            THEN IF HasKey(modules[self], components[1])
                 THEN GetModule(Lookup(modules[self], components[1]).m,
                                components[2], strip_output, depth - 1)
                 ELSE Raise("KeyError", "None")
            ELSE IF HasKey(modules[self], name)
            THEN Found(Lookup(modules[self], name).m, 0)
            ELSE IF strip_output /\ (HasPort(inputs[self], name)
                                     \/ HasPort(outputs[self], name))
            THEN Found(self, 0)
            ELSE Raise("KeyError", "None")
    IN  IF try.tag = "KeyError" THEN SpaModuleError("module", name, "None") ELSE try

get_module(self, name, strip_output) == GetModule(self, name, strip_output, RecursionLimit)

\* get_input_vocab, get_output_vocab: the second half of the pair
get_input_vocab(self, name) ==
    LET r == get_module_input(self, name)
    IN  IF r.tag = "ok" THEN Found(r.val.v, r.warns) ELSE [r EXCEPT !.val = NoVocab]
get_output_vocab(self, name) ==
    LET r == get_module_output(self, name)
    IN  IF r.tag = "ok" THEN Found(r.val.v, r.warns) ELSE [r EXCEPT !.val = NoVocab]

(***************************************************************************)
(* Module.get_module_inputs() and Module.get_module_outputs(): the names   *)
(* the generator yields, in order.                                         *)
(***************************************************************************)
\* the yield without the case of the "default" port
Yielded_Joined(name, port) == name \o <<Us>> \o port

\* what is yielded for a child's port
Yielded(name, port) == IF port = default THEN name ELSE name \o <<Us>> \o port

\* the names yielded for one child
ChildNames(name, ports) == [j \in 1..Len(ports) |-> Yielded(name, ports[j].k)]

RECURSIVE ModuleNames(_, _, _)
ModuleNames(io, self, i) ==
    IF i > Len(modules[self]) THEN <<>>
    ELSE ChildNames(modules[self][i].k, Ports(io, modules[self][i].m))
         \o ModuleNames(io, self, i + 1)

get_module_inputs(self) == ModuleNames("input", self, 1)
get_module_outputs(self) == ModuleNames("output", self, 1)

(***************************************************************************)
(* The registry built by module assignments alone: the states in which the *)
(* resolvers are examined.                                                 *)
(***************************************************************************)
Register(self, key, value) ==
    /\ ~HasModuleAttr(self, key)
    /\ SetAttr(self, key, value)

NextRegistry == \E self \in Mods, key \in Keys, value \in Mods : Register(self, key, value)

SpecRegistry == Init /\ [][NextRegistry]_vars

Next ==
    \/ \E self \in Mods, key \in Keys, value \in AttrValues : SetAttr(self, key, value)
    \/ \E self \in Mods, ex \in Exceptions : Exit(self, ex)

Spec == Init /\ [][Next]_vars

(***************************************************************************)
(* Registration and scope close                                            *)
(***************************************************************************)

\* C1: an assignment to a name that holds a module fails with
\* ReassignmentError whatever the new value is, and the assignment of a
\* module to a name that holds no module succeeds and registers it.
C1_SingleAssignment ==
    [][ret'.op = "setattr" =>
          IF attrs[ret'.self][ret'.key] \in Mods
          THEN ret'.raised = "ReassignmentError"
          ELSE ret'.value \in Mods =>
                  /\ ret'.raised = "None"
                  /\ attrs'[ret'.self][ret'.key] = ret'.value
                  /\ HasKey(modules'[ret'.self], ret'.key)
                  /\ Lookup(modules'[ret'.self], ret'.key).m = ret'.value]_vars

\* a name that held another value was given a module, and a later assignment
\* of another value to it was refused
C1_Witness ==
    /\ ret.op = "setattr"
    /\ ret.raised = "ReassignmentError"
    /\ ret.value = Other
    /\ \E m \in Mods, k \in Keys : m # ret.self /\ attrs[m][k] \in Mods

\* C2: a scope that closes with no exception in flight fails with
\* StructuralIntegrityError exactly when a Module nested in it is no value
\* of its _modules; the error names a nested, unregistered Module.
C2_CloseChecksNested ==
    (ret.op = "exit" /\ ret.exc = "None") =>
        LET nets == networks(ret.self)
            missing(n) == \A j \in 1..Len(modules[ret.self]) :
                              modules[ret.self][j].m # n
        IN  /\ ret.raised \in {"None", "StructuralIntegrityError"}
            /\ ret.raised = "StructuralIntegrityError" <=>
                  \E i \in 1..Len(nets) : nets[i] \in Mods /\ missing(nets[i])
            /\ ret.raised = "StructuralIntegrityError" =>
                  /\ ret.culprit \in Mods
                  /\ \E i \in 1..Len(nets) : nets[i] = ret.culprit
                  /\ missing(ret.culprit)

\* m1, which nests m2 and a plain network, closed cleanly with m2 registered
C2_Witness ==
    /\ ret.op = "exit"
    /\ ret.exc = "None"
    /\ ret.raised = "None"
    /\ ret.self = "m1"
    /\ "m2" \in Values(modules["m1"])

\* C3: a scope that closes with an exception in flight raises no
\* StructuralIntegrityError and lets that exception go on.
C3_CloseInFlight ==
    (ret.op = "exit" /\ ret.exc # "None") =>
        /\ ret.raised = ret.exc
        /\ ret.culprit = "None"

\* m1 closed with an exception in flight while m2 was not registered in it
C3_Witness ==
    /\ ret.op = "exit"
    /\ ret.exc # "None"
    /\ ret.self = "m1"
    /\ "m2" \notin Values(modules["m1"])

\* the binding a port has now
Binding(e) ==
    LET ports == IF e.io = "in" THEN inputs[e.module] ELSE outputs[e.module]
    IN  ports[CHOOSE i \in 1..Len(ports) : ports[i].k = e.k].v

\* C4: a port that held the dimension d when its module was registered in a
\* parent holds the handle the parent's map has for d; two such ports of one
\* parent hold the same handle when their dimensions agree and distinct
\* handles when they differ.
C4_ParentVocabulary ==
    /\ \A e \in resolvedAt :
          /\ Binding(e).kind = "vocab"
          /\ Binding(e) = vmaps[vocabs(e.parent)][e.dim]
    /\ \A e1, e2 \in resolvedAt :
          e1.parent = e2.parent => (e1.dim = e2.dim <=> Binding(e1) = Binding(e2))

\* two modules registered in one parent declared the same dimension, and one
\* of them holds a map of its own
C4_Witness ==
    \E e1, e2 \in resolvedAt :
        /\ e1.parent = e2.parent
        /\ e1.module # e2.module
        /\ e1.dim = e2.dim
        /\ vocabs(e1.module) # vocabs(e1.parent)
        /\ \E e3 \in resolvedAt : e3.parent = e1.parent /\ e3.dim # e1.dim

\* C5: a registration that succeeds calls on_add once, with the parent, when
\* the module is in the parent's _modules under the name and none of its
\* ports holds an int; a refused registration does not call it.
C5_HookAfterResolution ==
    ret.op = "setattr" =>
        IF ret.raised = "None" /\ ret.value \in Mods
        THEN /\ Len(ret.onAdd) = 1
             /\ ret.onAdd[1].module = ret.value
             /\ ret.onAdd[1].spa = ret.self
             /\ ret.onAdd[1].registered
             /\ ~ret.onAdd[1].raw
        ELSE ret.onAdd = <<>>

\* the hook ran for a module whose ports held dimensions when it was assigned
C5_Witness ==
    /\ ret.op = "setattr"
    /\ Len(ret.onAdd) = 1
    /\ \E e \in resolvedAt : e.module = ret.value /\ e.parent = ret.self

(***************************************************************************)
(* Name resolution: the names the resolvers are asked for                  *)
(***************************************************************************)
IOs == {"input", "output"}
Names == Keys \cup {<<"b">>}
Join(n1, sep, n2) == n1 \o <<sep>> \o n2
\* names without a dot: one word, or two joined by "_"
Undotted == Names \cup {Join(n1, Us, n2) : n1, n2 \in Names}
\* a remainder: an undotted name or two words joined by "."
Remainders == Undotted \cup {Join(n1, Dot, n2) : n1, n2 \in Names}
Paths == Remainders \cup {Join(h, Dot, r) : h \in Names, r \in Remainders}
UsFree(name) == Places(name, Us) = {}
Resolve(io, self, name) ==
    IF io = "input" THEN get_module_input(self, name) ELSE get_module_output(self, name)

\* C6: a dotted name whose head is a child resolves to what the child gives
\* for the remainder, value or error alike, and a head that is no child
\* fails with the port error for the name asked.
C6_DottedRecursion ==
    \A io \in IOs, A \in Mods :
        /\ \A i \in 1..Len(modules[A]), r \in Remainders :
              Resolve(io, A, Join(modules[A][i].k, Dot, r))
                  = Resolve(io, modules[A][i].m, r)
        /\ \A h \in Names, r \in Names \cup {Join(k, Dot, default) : k \in Keys} :
              ~HasKey(modules[A], h) =>
                  Resolve(io, A, Join(h, Dot, r))
                      = SpaModuleError(io, Join(h, Dot, r), NoPort)

\* a port two levels down is reached through two dots
C6_Witness ==
    \E A, B, C \in Mods, k1, k2 \in Keys, p \in Names :
        /\ A # B /\ B # C /\ A # C
        /\ HasKey(modules[A], k1) /\ Lookup(modules[A], k1).m = B
        /\ HasKey(modules[B], k2) /\ Lookup(modules[B], k2).m = C
        /\ HasPort(outputs[C], p)
        /\ get_module_output(A, Join(k1, Dot, Join(k2, Dot, p)))
              = Found(PortOf(outputs[C], p), 0)

\* C7 as claimed: for every port p of a child M, the name M_p that is no
\* port and no child of A resolves to the pair of M.p with a warning, M_default
\* resolves to what M does, and a warning comes only with a value found
\* through the underscore.
C7_LegacyEveryPort ==
    /\ \A io \in IOs, A \in Mods :
          \A i \in 1..Len(modules[A]) :
              LET M == modules[A][i] IN
              \A j \in 1..Len(Ports(io, M.m)) :
                  LET p == Ports(io, M.m)[j].k
                      legacy == Resolve(io, A, Join(M.k, Us, p))
                      dotted == Resolve(io, A, Join(M.k, Dot, p))
                  IN  (~HasPort(Ports(io, A), Join(M.k, Us, p))
                       /\ ~HasKey(modules[A], Join(M.k, Us, p))) =>
                          /\ legacy.tag = "ok" /\ dotted.tag = "ok"
                          /\ legacy.val = dotted.val
                          /\ legacy.warns = 1
                          /\ p = default =>
                                /\ Resolve(io, A, M.k).tag = "ok"
                                /\ Resolve(io, A, M.k).val = legacy.val
                                /\ Resolve(io, A, M.k).warns = 0
    /\ \A io \in IOs, A \in Mods, name \in Remainders :
          LET r == Resolve(io, A, name) IN
          r.warns > 0 => (r.tag = "ok" /\ ~UsFree(name))

\* C7: the same for the ports p whose name holds no underscore, M_default
\* being compared with M when M names no port of A.
C7_LegacyPlainPort ==
    /\ \A io \in IOs, A \in Mods :
          \A i \in 1..Len(modules[A]) :
              LET M == modules[A][i] IN
              \A j \in 1..Len(Ports(io, M.m)) :
                  LET p == Ports(io, M.m)[j].k
                      legacy == Resolve(io, A, Join(M.k, Us, p))
                      dotted == Resolve(io, A, Join(M.k, Dot, p))
                  IN  (/\ UsFree(p)
                       /\ ~HasPort(Ports(io, A), Join(M.k, Us, p))
                       /\ ~HasKey(modules[A], Join(M.k, Us, p))) =>
                          /\ legacy.tag = "ok" /\ dotted.tag = "ok"
                          /\ legacy.val = dotted.val
                          /\ legacy.warns = 1
                          /\ dotted.warns = 0
                          /\ (p = default /\ ~HasPort(Ports(io, A), M.k)) =>
                                /\ Resolve(io, A, M.k).tag = "ok"
                                /\ Resolve(io, A, M.k).val = legacy.val
                                /\ Resolve(io, A, M.k).warns = 0
    /\ \A io \in IOs, A \in Mods, name \in Remainders :
          LET r == Resolve(io, A, name) IN
          /\ r.warns > 0 => (r.tag = "ok" /\ ~UsFree(name))
          /\ r.tag # "ok" => r.warns = 0
          /\ (HasPort(Ports(io, A), name) \/ HasKey(modules[A], name)) => r.warns = 0

\* a child named with an underscore is reached through M_default
C7_Witness ==
    \E A \in Mods :
        /\ HasKey(modules[A], <<"a", Us, "b">>)
        /\ ~HasKey(modules[A], <<"a">>)
        /\ LET r == get_module_input(A, <<"a", Us, "b", Us, "default">>)
           IN  /\ r.tag = "ok"
               /\ r.warns = 1
               /\ r = Warned(get_module_input(A, <<"a", Us, "b">>))

\* the number of names yielded for the children before the i-th
RECURSIVE Before(_, _, _)
Before(io, P, i) ==
    IF i <= 1 THEN 0
    ELSE Before(io, P, i - 1) + Len(Ports(io, modules[P][i - 1].m))

Enumerate(io, P) ==
    IF io = "input" THEN get_module_inputs(P) ELSE get_module_outputs(P)

\* C8: the enumeration holds one name for each port of each direct child,
\* children in the order of their assignment and ports in the child's order:
\* the child's name for the port "default", child_port otherwise; no name
\* holds a dot.  Children a with {default} and a_b with {a, b} give
\* a, a_b_a, a_b_b.
C8_Enumeration ==
    \A io \in IOs, P \in Mods :
        LET out == Enumerate(io, P)
            kids == modules[P]
        IN  /\ Len(out) = Before(io, P, Len(kids) + 1)
            /\ \A i \in 1..Len(kids) :
                  \A j \in 1..Len(Ports(io, kids[i].m)) :
                      LET port == Ports(io, kids[i].m)[j].k
                          name == out[Before(io, P, i) + j]
                      IN  /\ port = default => name = kids[i].k
                          /\ port # default =>
                                /\ Len(name) = Len(kids[i].k) + 1 + Len(port)
                                /\ SubSeq(name, 1, Len(kids[i].k)) = kids[i].k
                                /\ name[Len(kids[i].k) + 1] = Us
                                /\ SubSeq(name, Len(kids[i].k) + 2, Len(name)) = port
            /\ \A n \in 1..Len(out) : Places(out[n], Dot) = {}
            /\ (kids = <<[k |-> <<"a">>, m |-> "m1"], [k |-> <<"a", Us, "b">>, m |-> "m2"]>>
                /\ P = "m3") =>
                  get_module_inputs(P)
                      = << <<"a">>, <<"a", Us, "b", Us, "a">>, <<"a", Us, "b", Us, "b">> >>

\* m3 was given m1 as a and then m2 as a_b
C8_Witness ==
    modules["m3"] = <<[k |-> <<"a">>, m |-> "m1"], [k |-> <<"a", Us, "b">>, m |-> "m2"]>>

\* C9: an undotted name that is no port and no child, and that has no
\* underscore or no child before its last underscore, fails with the port
\* error for that name; a value returned is the module's own port, or what
\* the child of that name gives for "default", or what the child named before
\* the last underscore gives for the rest.
C9_UndottedMiss ==
    \A io \in IOs, P \in Mods, name \in Undotted :
        LET r == Resolve(io, P, name)
            own == HasPort(Ports(io, P), name)
            kid == HasKey(modules[P], name)
            us == Places(name, Us)
            head == SubSeq(name, 1, Max(us) - 1)
            tail == SubSeq(name, Max(us) + 1, Len(name))
        IN  /\ (~own /\ ~kid /\ (us = {} \/ ~HasKey(modules[P], head))) =>
                  r = SpaModuleError(io, name, NoPort)
            /\ r.tag = "ok" =>
                  \/ own /\ r.val = PortOf(Ports(io, P), name)
                  \/ ~own /\ kid
                     /\ r.val = Resolve(io, Lookup(modules[P], name).m, default).val
                  \/ ~own /\ ~kid /\ us # {} /\ HasKey(modules[P], head)
                     /\ r.val = Resolve(io, Lookup(modules[P], head).m, tail).val

\* a module with a child a holding the port a_b is asked for a_a_b
C9_Witness ==
    \E P \in Mods :
        /\ HasKey(modules[P], <<"a">>)
        /\ HasPort(outputs[Lookup(modules[P], <<"a">>).m], <<"a", Us, "b">>)
        /\ get_module_output(P, <<"a", Us, "a", Us, "b">>).tag = "SpaModuleError"
        /\ get_module_output(P, <<"b">>).tag = "SpaModuleError"

\* C10 as claimed: no resolver lets a KeyError out, and the SpaModuleError
\* of a failed call names the path that call was asked for.
C10_ErrorNamesRequest ==
    \A P \in Mods, name \in Paths :
        /\ \A io \in IOs :
              LET r == Resolve(io, P, name) IN
              /\ r.tag # "KeyError"
              /\ r.tag = "SpaModuleError" => r.msg = [what |-> io, name |-> name]
        /\ \A strip \in BOOLEAN :
              LET r == get_module(P, name, strip) IN
              /\ r.tag # "KeyError"
              /\ r.tag = "SpaModuleError" => r.msg = [what |-> "module", name |-> name]


(***************************************************************************)
(* The shape of the registry                                               *)
(***************************************************************************)
\* the modules that hold M as a value of their _modules
Parents(M) == {P \in Mods : M \in Values(modules[P])}

\* the modules reached from the modules of S in at most n steps down
RECURSIVE Below(_, _)
Below(S, n) ==
    IF n = 0 THEN S
    ELSE Below(S \cup UNION {Values(modules[m]) : m \in S}, n - 1)

\* the modules reached from M in one step or more
Descendants(M) == Below(Values(modules[M]), Cardinality(Mods))

\* C11 as claimed: with a remainder get_module returns what the child named
\* by the head returns for it, or fails when the head is no child; at the
\* leaf a child of that name is returned, before a port of the same name;
\* else, with strip_output and a port of that name, the module itself; else
\* the call fails.  Without strip_output the call never returns the module
\* it was made on, and B.X with strip_output gives B for a port X of B that
\* is no child of B.
C11_GetModule ==
    \A P \in Mods, strip \in BOOLEAN :
        /\ \A h \in Names, r \in Remainders :
              get_module(P, Join(h, Dot, r), strip)
                  = IF HasKey(modules[P], h)
                    THEN get_module(Lookup(modules[P], h).m, r, strip)
                    ELSE SpaModuleError("module", Join(h, Dot, r), "None")
        /\ \A name \in Undotted :
              get_module(P, name, strip)
                  = IF HasKey(modules[P], name)
                    THEN Found(Lookup(modules[P], name).m, 0)
                    ELSE IF strip /\ (HasPort(inputs[P], name) \/ HasPort(outputs[P], name))
                    THEN Found(P, 0)
                    ELSE SpaModuleError("module", name, "None")
        /\ \A name \in Paths :
              get_module(P, name, FALSE).tag = "ok" => get_module(P, name, FALSE).val # P
        /\ \A i \in 1..Len(modules[P]), X \in Names :
              LET B == modules[P][i] IN
              ((HasPort(inputs[B.m], X) \/ HasPort(outputs[B.m], X))
               /\ ~HasKey(modules[B.m], X)) =>
                  get_module(P, Join(B.k, Dot, X), TRUE) = Found(B.m, 0)

\* C12 as claimed: no module is a value of the _modules of two modules.
C12_OneParent ==
    \A M \in Mods : Cardinality(Parents(M)) <= 1

\* C13 as claimed: no module is reached from itself through _modules.
C13_NoCycle ==
    \A M \in Mods : M \notin Descendants(M)


(***************************************************************************)
(* What a registration keeps                                               *)
(***************************************************************************)

\* C14: a label that is set is never changed, by a later registration or by
\* a refused one; a label that is unset changes only in the step that
\* registers its module, and becomes the name of that registration.
C14_LabelSetOnce ==
    [][\A m \in Mods :
          IF label[m] # NoLabel
          THEN label'[m] = label[m]
          ELSE IF ret'.op = "setattr" /\ ret'.raised = "None" /\ ret'.value = m
          THEN label'[m] = ret'.key
          ELSE label'[m] = NoLabel]_vars

\* a module labelled by its first registration was registered again, in
\* another parent under another name
C14_Witness ==
    /\ ret.op = "setattr"
    /\ ret.raised = "None"
    /\ ret.value \in Mods
    /\ label[ret.value] # ret.key
    /\ \E P \in Mods \ {ret.self} :
          /\ HasKey(modules[P], label[ret.value])
          /\ Lookup(modules[P], label[ret.value]).m = ret.value


\* C15: a port bound to a vocabulary keeps that very binding in every step:
\* it does not go back to an int and is not bound to another vocabulary,
\* also when its module is registered again under another name or in a
\* parent whose map is another one; no port is added or dropped.
C15_ResolvedStays ==
    [][\A m \in Mods :
          /\ Len(inputs'[m]) = Len(inputs[m])
          /\ Len(outputs'[m]) = Len(outputs[m])
          /\ \A i \in 1..Len(inputs[m]) :
                inputs[m][i].v.kind = "vocab" => inputs'[m][i] = inputs[m][i]
          /\ \A i \in 1..Len(outputs[m]) :
                outputs[m][i].v.kind = "vocab" => outputs'[m][i] = outputs[m][i]]_vars

\* a module whose ports were bound by one parent's map has been registered
\* in a parent with another map
C15_Witness ==
    /\ ret.op = "setattr"
    /\ ret.raised = "None"
    /\ ret.value \in Mods
    /\ \E i \in 1..Len(inputs[ret.value]) :
          /\ inputs[ret.value][i].v.kind = "vocab"
          /\ inputs[ret.value][i].v.owner # vocabs(ret.self)
    /\ \E P \in Mods \ {ret.self} : ret.value \in Values(modules[P])


(***************************************************************************)
(* The order of the strategies                                             *)
(***************************************************************************)

\* C16: for a name without a dot the first strategy that applies gives the
\* whole result, value, warnings and error alike: a port of the module
\* itself, found without a warning; else the "default" port of the child of
\* that name; else, with a warning, the port named by the text after the
\* last underscore in the child named by the text before it.  A module with
\* children a_b and a, a having the port b, gives for a_b the "default"
\* port of a_b without a warning.
C16_StrategyOrder ==
    \A io \in IOs, P \in Mods :
        /\ \A name \in Undotted :
              LET r == Resolve(io, P, name)
                  us == Places(name, Us)
                  head == SubSeq(name, 1, Max(us) - 1)
                  tail == SubSeq(name, Max(us) + 1, Len(name))
              IN  IF HasPort(Ports(io, P), name)
                  THEN r = Found(PortOf(Ports(io, P), name), 0)
                  ELSE IF HasKey(modules[P], name)
                  THEN r = Resolve(io, Lookup(modules[P], name).m, default)
                  ELSE (us # {} /\ HasKey(modules[P], head)) =>
                          LET t == Resolve(io, Lookup(modules[P], head).m, tail)
                          IN  r = IF t.tag = "ok" THEN Found(t.val, t.warns + 1) ELSE t
        /\ ( /\ HasKey(modules[P], <<"a", Us, "b">>)
             /\ HasKey(modules[P], <<"a">>)
             /\ HasPort(Ports(io, Lookup(modules[P], <<"a">>).m), <<"b">>)
             /\ ~HasPort(Ports(io, P), <<"a", Us, "b">>)
             /\ HasPort(Ports(io, Lookup(modules[P], <<"a", Us, "b">>).m), default) ) =>
               Resolve(io, P, <<"a", Us, "b">>)
                   = Found(PortOf(Ports(io, Lookup(modules[P], <<"a", Us, "b">>).m),
                                  default), 0)

\* a module with the children a_b and a, a holding the input b, is asked for
\* a_b and gives the default input of a_b, which is not the input b of a
C16_Witness ==
    \E P \in Mods :
        /\ HasKey(modules[P], <<"a", Us, "b">>)
        /\ HasKey(modules[P], <<"a">>)
        /\ HasPort(inputs[Lookup(modules[P], <<"a">>).m], <<"b">>)
        /\ ~HasPort(inputs[P], <<"a", Us, "b">>)
        /\ HasPort(inputs[Lookup(modules[P], <<"a", Us, "b">>).m], default)
        /\ get_module_input(P, <<"a", Us, "b">>).warns = 0
        /\ get_module_input(P, <<"a", Us, "b">>)
              # Warned(get_module_input(Lookup(modules[P], <<"a">>).m, <<"b">>))


\* C17 as claimed: in every registry and for every path each resolver call
\* ends within the calls the interpreter allows, with a result or with a
\* SpaModuleError.
C17_Terminates ==
    \A P \in Mods, name \in Paths :
        /\ \A io \in IOs : Resolve(io, P, name).tag \in {"ok", "SpaModuleError"}
        /\ \A strip \in BOOLEAN :
              get_module(P, name, strip).tag \in {"ok", "SpaModuleError"}


(***************************************************************************)
(* From the enumeration back to the ports                                  *)
(***************************************************************************)

\* C18 as claimed: every name the enumeration of P yields resolves in P,
\* without error, to the pair of the child's port it was yielded for,
\* whatever the names of the children and the ports are.
C18_RoundTripAll ==
    \A io \in IOs, P \in Mods :
        \A i \in 1..Len(modules[P]) :
            \A j \in 1..Len(Ports(io, modules[P][i].m)) :
                LET port == Ports(io, modules[P][i].m)[j]
                    name == Enumerate(io, P)[Before(io, P, i) + j]
                    r == Resolve(io, P, name)
                IN  /\ r.tag = "ok"
                    /\ r.val = [obj |-> port.obj, v |-> port.v]

\* C18: a name the enumeration of P yields resolves in P to the pair of the
\* child's port it was yielded for, without a warning for a "default" port
\* and with one otherwise, provided the name is no port of P, the port's
\* name holds no underscore and, for a port other than "default", the name
\* is no child of P.  The child's name may hold underscores.
C18_RoundTrip ==
    \A io \in IOs, P \in Mods :
        \A i \in 1..Len(modules[P]) :
            \A j \in 1..Len(Ports(io, modules[P][i].m)) :
                LET port == Ports(io, modules[P][i].m)[j]
                    name == Enumerate(io, P)[Before(io, P, i) + j]
                IN  ( /\ ~HasPort(Ports(io, P), name)
                      /\ UsFree(port.k)
                      /\ port.k = default \/ ~HasKey(modules[P], name) ) =>
                        Resolve(io, P, name)
                            = Found([obj |-> port.obj, v |-> port.v],
                                    IF port.k = default THEN 0 ELSE 1)

\* a child named a_b with the inputs a and b: the second name yielded for it
\* is a_b_b and resolves to the child's second input
C18_Witness ==
    \E P \in Mods :
        /\ Len(modules[P]) >= 1
        /\ modules[P][1].k = <<"a", Us, "b">>
        /\ Len(inputs[modules[P][1].m]) = 2
        /\ get_module_inputs(P)[2] = <<"a", Us, "b", Us, "b">>
        /\ ~HasPort(inputs[P], <<"a", Us, "b", Us, "b">>)
        /\ get_module_input(P, get_module_inputs(P)[2]).tag = "ok"
        /\ get_module_input(P, get_module_inputs(P)[2]).val.obj
              = inputs[modules[P][1].m][2].obj


(***************************************************************************)
(* A refused assignment                                                    *)
(***************************************************************************)

\* C19: a step in which an assignment is refused with ReassignmentError
\* leaves everything as it was: the children of every module, with the
\* module bound to the name, the attribute's value, every label and every
\* port binding, those of the refused value among them, and the maps.
C19_RefusedChangesNothing ==
    [][(ret'.op = "setattr" /\ ret'.raised = "ReassignmentError") =>
          /\ modules' = modules
          /\ attrs' = attrs
          /\ label' = label
          /\ inputs' = inputs
          /\ outputs' = outputs
          /\ vmaps' = vmaps]_vars

\* the value refused is a module never registered: it has no label and its
\* ports still hold ints, and the name holds the module bound before
C19_Witness ==
    /\ ret.op = "setattr"
    /\ ret.raised = "ReassignmentError"
    /\ ret.value \in Mods
    /\ label[ret.value] = NoLabel
    /\ RawPorts(inputs[ret.value]) # {}
    /\ RawPorts(outputs[ret.value]) # {}
    /\ attrs[ret.self][ret.key] \in Mods \ {ret.value}
    /\ Lookup(modules[ret.self], ret.key).m = attrs[ret.self][ret.key]


(***************************************************************************)
(* The ports of registered modules                                         *)
(***************************************************************************)

\* C20: no module held in some module's _modules has a port bound to an
\* int, its ports being those it declared when it was built; so
\* get_input_vocab and get_output_vocab give a vocabulary for every path
\* that resolves to a port found through a child.
C20_RegisteredResolved ==
    \A P \in Mods :
        /\ \A c \in Values(modules[P]) :
              /\ RawPorts(inputs[c]) = {}
              /\ RawPorts(outputs[c]) = {}
        /\ \A name \in Remainders :
              /\ (get_input_vocab(P, name).tag = "ok" /\ ~HasPort(inputs[P], name)) =>
                    /\ ~IsInt(get_input_vocab(P, name).val)
                    /\ get_input_vocab(P, name).val.kind = "vocab"
              /\ (get_output_vocab(P, name).tag = "ok" /\ ~HasPort(outputs[P], name)) =>
                    /\ ~IsInt(get_output_vocab(P, name).val)
                    /\ get_output_vocab(P, name).val.kind = "vocab"

\* a module built with an output of dimension 2 is the child a of P, and the
\* path a.a_b gives the vocabulary of P's map for that dimension
C20_Witness ==
    \E P \in Mods :
        /\ HasKey(modules[P], <<"a">>)
        /\ InitOutputs[Lookup(modules[P], <<"a">>).m][1].v = RawDim(2)
        /\ get_output_vocab(P, <<"a", Dot, "a", Us, "b">>) = Found(Vocab(vocabs(P), 2), 0)

====
